---- MODULE Spec2Model ----
(***************************************************************************)
(* A model of rust-svnlook: the managed process streams (ChildReader in    *)
(* child_reader.rs, SvnlookCommand in lib.rs), the change record parser    *)
(* SvnChangedIter built on SvnlookCommand, the child process they drive,   *)
(* and the one-shot conversions of captured output (the try_from of        *)
(* SvnChange, SvnFrom and SvnInfo).  Bytes are one-character strings, byte *)
(* slices are sequences.                                                   *)
(***************************************************************************)
EXTENDS Naturals, Integers, Sequences, FiniteSets, TLC

VARIABLES
    kind,        \* which object the caller owns: a ChildReader, a SvnlookCommand or a SvnChangedIter
    childState,  \* the spawned process: "running" or "exited"
    exitCode,    \* the code the process exited with (NoCode while it runs)
    todo,        \* output lines the process has still to write
    pipe,        \* lines written by the process and not yet read
    waitErr,     \* TRUE when the host's process-wait fails for this child (e.g. ECHILD)
    status,      \* std Child's cached exit status (NoCode until a wait succeeded)
    osWaits,     \* number of OS process-waits performed inside Child::wait
    reaped,      \* the process has been collected by a successful process-wait
    stdout,      \* the Option field `stdout`: "open" (Some) or "none" (None)
    line,        \* SvnChangedIter.line
    finished,    \* SvnChangedIter.finished
    change,      \* parse()'s local `change` while the continuation line is awaited
    pc,          \* the caller's position: "idle", "cont", "wait" or "dropped"; "new" and
                 \* "failed" around spawn; "convert" and "converted" around a try_from
    ctx,         \* the operation that called finish() while pc = "wait"
    ret,         \* the last completed call and what it returned
    calls,       \* number of read / finish / next calls made so far
    finishCalls, \* number of finish() invocations
    ioErrs,      \* number of pipe reads that failed with an I/O error
    consumed,    \* number of lines taken from the pipe
    yielded,     \* number of items next() has yielded
    eofRet,      \* what the call of next() whose line read returned 0 bytes returned
    termAt,      \* `yielded` when a CommandError or ExitFailure item was first yielded
    input,       \* the argument handed to a one-shot conversion (a try_from)
    parsed       \* what that conversion returned

vars == <<kind, childState, exitCode, todo, pipe, waitErr, status, osWaits, reaped,
          stdout, line, finished, change, pc, ctx, ret, calls, finishCalls, ioErrs,
          consumed, yielded, eofRet, termAt, input, parsed>>

(***************************************************************************)
(* Bounds of the model.                                                    *)
(***************************************************************************)
MaxLines == 3      \* lines the process writes at most
PipeCap == 1       \* lines the pipe holds before the writer blocks
MaxCalls == 5      \* read / finish / next calls the caller makes at most
MaxIoErrs == 1     \* pipe reads that fail with an I/O error at most
MaxHead == 3       \* leading bytes of a status line that are drawn freely
MaxInner == 5      \* bytes between "    (from " and ")" that are drawn freely
MaxMsg == 4        \* bytes of the message section of a revision info buffer

(***************************************************************************)
(* Bytes and lines.                                                        *)
(***************************************************************************)
NL == "\n"
SP == " "
BadByte == "xFF"          \* a byte that is not valid UTF-8
Replacement == "uFFFD"    \* what from_utf8_lossy puts in its place
Digits == <<"0", "1", "2", "3", "4", "5", "6", "7", "8", "9">>

NoCode == -1
ExitCodes == {0, 1}
success(c) == c = 0

LAdded == <<"A", SP, SP, SP, "p", NL>>
LCopied == <<"A", SP, "+", SP, "q", NL>>
LDeleted == <<"D", SP, SP, SP, "p", NL>>
LUpdated == <<"U", SP, SP, SP, "p", NL>>
LUpdatedBoth == <<"U", "U", SP, SP, "p", NL>>
LPropChange == <<"_", "U", SP, SP, "p", NL>>
LFrom == <<SP, SP, SP, SP, "(", "f", "r", "o", "m", SP, "s", ":", "r", "7", ")", NL>>
LBadFrom == <<SP, SP, SP, SP, "(", "f", "r", "o", "m", SP, "s", ")", NL>>
LBadStatus == <<"X", SP, SP, SP, "p", NL>>
LUnterminated == <<"A", SP, SP, SP, "p">>

\* complete lines the process may write, and the partial line it may end with
Lines == {LAdded, LCopied, LDeleted, LUpdated, LUpdatedBoth, LPropChange,
          LFrom, LBadFrom, LBadStatus}
Tails == {<<>>, LUnterminated}

(***************************************************************************)
(* Results.                                                                *)
(***************************************************************************)
Ok(v) == [ok |-> TRUE, val |-> v]
Err == [ok |-> FALSE]

starts_with(s, p) == Len(s) >= Len(p) /\ SubSeq(s, 1, Len(p)) = p
ends_with(s, p) == Len(s) >= Len(p) /\ SubSeq(s, Len(s) - Len(p) + 1, Len(s)) = p

from_utf8_ok(s) == \A i \in 1..Len(s) : s[i] # BadByte
from_utf8_lossy(s) == [i \in 1..Len(s) |-> IF s[i] = BadByte THEN Replacement ELSE s[i]]

try_chomp(slice) ==
    IF ends_with(slice, <<NL>>) THEN Ok(SubSeq(slice, 1, Len(slice) - 1)) ELSE Err

IsDigit(b) == \E d \in 1..10 : Digits[d] = b
DigitVal(b) == (CHOOSE d \in 1..10 : Digits[d] = b) - 1

RECURSIVE DecimalVal(_)
DecimalVal(s) ==
    IF s = <<>> THEN 0
    ELSE 10 * DecimalVal(SubSeq(s, 1, Len(s) - 1)) + DigitVal(s[Len(s)])

\* a number parser that answers 0 for what is not a number
u64_from_str_lenient(s) ==
    IF s # <<>> /\ \A i \in 1..Len(s) : IsDigit(s[i]) THEN Ok(DecimalVal(s)) ELSE Ok(0)

\* u64::from_str: an optional "+", then one or more decimal digits
u64_from_str(s) ==
    LET d == IF s # <<>> /\ s[1] = "+" THEN Tail(s) ELSE s
    IN  IF d # <<>> /\ \A i \in 1..Len(d) : IsDigit(d[i])
        THEN Ok(DecimalVal(d))
        ELSE Err

\* a count parser that answers 0 for what is not a number
usize_from_str_lenient(s) ==
    IF s # <<>> /\ \A i \in 1..Len(s) : IsDigit(s[i]) THEN Ok(DecimalVal(s)) ELSE Ok(0)

\* usize::from_str, of the same form (the counts drawn here are far from its range)
usize_from_str(s) == u64_from_str(s)

DefaultFrom == [path |-> <<>>, revision |-> 0]

\* a status decoder that takes an unknown code for Updated
SvnStatus_try_from_lenient(s) ==
    IF Len(s) < 3 THEN Err
    ELSE IF SubSeq(s, 1, 3) = <<"A", SP, "+">>
    THEN Ok([tag |-> "Copied", from |-> DefaultFrom])
    ELSE Ok([tag |-> "Updated"])

SvnStatus_try_from(s) ==
    IF Len(s) < 3 THEN Err
    ELSE LET c == SubSeq(s, 1, 3)
         IN  CASE c = <<"A", SP, SP>> -> Ok([tag |-> "Added"])
               [] c = <<"A", SP, "+">> -> Ok([tag |-> "Copied", from |-> DefaultFrom])
               [] c = <<"D", SP, SP>> -> Ok([tag |-> "Deleted"])
               [] c = <<"U", SP, SP>> -> Ok([tag |-> "Updated"])
               [] c = <<"_", "U", SP>> -> Ok([tag |-> "PropChange"])
               [] c = <<"U", "U", SP>> -> Ok([tag |-> "Updated"])
               [] OTHER -> Err

\* a record decoder that splits the line one byte early: the separator stays in the path
SvnChange_try_from_keepsSeparator(l) ==
    LET chomped == try_chomp(l)
    IN  IF ~chomped.ok THEN Err
        ELSE IF Len(chomped.val) < 4 THEN Err
        ELSE LET st == SvnStatus_try_from(SubSeq(chomped.val, 1, 3))
                 path == SubSeq(chomped.val, 4, Len(chomped.val))
             IN  IF st.ok
                 THEN Ok([path |-> from_utf8_lossy(path), status |-> st.val])
                 ELSE Err

SvnChange_try_from(l) ==
    LET chomped == try_chomp(l)
    IN  IF ~chomped.ok THEN Err
        ELSE IF Len(chomped.val) < 4 THEN Err
        ELSE LET st == SvnStatus_try_from(SubSeq(chomped.val, 1, 4))
                 path == SubSeq(chomped.val, 5, Len(chomped.val))
             IN  IF st.ok
                 THEN Ok([path |-> from_utf8_lossy(path), status |-> st.val])
                 ELSE Err

\* lib.rs's chomp: the slice without its "\n", or the slice itself when it has none
chomp(slice) ==
    IF ends_with(slice, <<NL>>) THEN SubSeq(slice, 1, Len(slice) - 1) ELSE slice

\* lib.rs's SvnChangedIter::parse on the line l, up to `self.line.clear()`
parse(l) ==
    IF Len(l) < 4 THEN Err
    ELSE LET path == chomp(SubSeq(l, 5, Len(l)))
             st == SvnStatus_try_from(SubSeq(l, 1, 4))
         IN  IF st.ok
             THEN Ok([path |-> from_utf8_lossy(path), status |-> st.val])
             ELSE Err

FromPrefix == <<SP, SP, SP, SP, "(", "f", "r", "o", "m", SP>>

\* a search from the left: the index of the first ':' of s, 0 when there is none
position_first(s) ==
    LET I == {i \in 1..Len(s) : s[i] = ":"}
    IN  IF I = {} THEN 0 ELSE CHOOSE i \in I : \A j \in I : i <= j

\* the index of the last ':' of s, 0 when there is none
rposition(s) ==
    LET I == {i \in 1..Len(s) : s[i] = ":"}
    IN  IF I = {} THEN 0 ELSE CHOOSE i \in I : \A j \in I : j <= i

SvnFrom_try_from(l) ==
    LET chomped == try_chomp(l)
    IN  IF ~chomped.ok THEN Err
        ELSE IF ~starts_with(chomped.val, FromPrefix) \/ ~ends_with(chomped.val, <<")">>)
        THEN Err
        ELSE LET inner == SubSeq(chomped.val, 11, Len(chomped.val) - 1)
                 pos == rposition(inner)
                 path == SubSeq(inner, 1, pos - 1)
                 revision == SubSeq(inner, pos, Len(inner))
             IN  IF pos = 0 \/ ~(Len(revision) > 2) THEN Err
                 ELSE LET digits == SubSeq(revision, 3, Len(revision))
                          n == u64_from_str(digits)
                      IN  IF from_utf8_ok(digits) /\ n.ok
                          THEN Ok([path |-> from_utf8_lossy(path), revision |-> n.val])
                          ELSE Err

(***************************************************************************)
(* The revision info parser: TryFrom<(u64, &[u8])> for SvnInfo.            *)
(***************************************************************************)
\* a split at every "\n", whatever the limit
RECURSIVE split(_, _)
split(n, s) ==
    LET I == {i \in 1..Len(s) : s[i] = NL}
    IN  IF I = {} THEN <<s>>
        ELSE LET i == CHOOSE i \in I : \A j \in I : i <= j
             IN  <<SubSeq(s, 1, i - 1)>> \o split(n, SubSeq(s, i + 1, Len(s)))

\* slice::splitn(n, |b| *b == b'\n'): at most n pieces, the last one takes the rest
RECURSIVE splitn(_, _)
splitn(n, s) ==
    LET I == {i \in 1..Len(s) : s[i] = NL}
    IN  IF n <= 1 \/ I = {} THEN <<s>>
        ELSE LET i == CHOOSE i \in I : \A j \in I : i <= j
             IN  <<SubSeq(s, 1, i - 1)>> \o splitn(n - 1, SubSeq(s, i + 1, Len(s)))

Num(d, i, n) == DecimalVal(SubSeq(d, i, i + n - 1))
IsLeap(y) == y % 4 = 0 /\ (y % 100 # 0 \/ y % 400 = 0)
DaysIn(y, m) ==
    IF m \in {4, 6, 9, 11} THEN 30
    ELSE IF m = 2 THEN (IF IsLeap(y) THEN 29 ELSE 28)
    ELSE 31

\* DateTime::parse_from_str(d, "%Y-%m-%d %H:%M:%S %z") on the 25-byte window, for
\* the zero-padded layout "YYYY-MM-DD HH:MM:SS +HHMM"; the offset is in minutes
parse_from_str(d) ==
    IF /\ Len(d) = 25
       /\ \A i \in {1, 2, 3, 4, 6, 7, 9, 10, 12, 13, 15, 16, 18, 19, 22, 23, 24, 25} :
            IsDigit(d[i])
       /\ d[5] = "-" /\ d[8] = "-" /\ d[11] = SP
       /\ d[14] = ":" /\ d[17] = ":" /\ d[20] = SP
       /\ d[21] \in {"+", "-"}
       /\ Num(d, 6, 2) \in 1..12
       /\ Num(d, 9, 2) \in 1..DaysIn(Num(d, 1, 4), Num(d, 6, 2))
       /\ Num(d, 12, 2) < 24 /\ Num(d, 15, 2) < 60 /\ Num(d, 18, 2) < 60
       /\ Num(d, 24, 2) < 60
    THEN Ok([year |-> Num(d, 1, 4), month |-> Num(d, 6, 2), day |-> Num(d, 9, 2),
             hour |-> Num(d, 12, 2), minute |-> Num(d, 15, 2), second |-> Num(d, 18, 2),
             offset |-> (IF d[21] = "-" THEN -1 ELSE 1)
                            * (60 * Num(d, 22, 2) + Num(d, 24, 2))])
    ELSE Err

SvnInfo_try_from(revision, bytes) ==
    LET lines == splitn(4, bytes)
        committer == from_utf8_lossy(lines[1])
    IN  IF \/ Len(lines) < 2
           \/ ~(Len(lines[2]) > 25)
           \/ ~from_utf8_ok(SubSeq(lines[2], 1, 25))
           \/ ~parse_from_str(SubSeq(lines[2], 1, 25)).ok
        THEN Err
        ELSE IF \/ Len(lines) < 3
                \/ ~from_utf8_ok(lines[3])
                \/ ~usize_from_str(lines[3]).ok
        THEN Err
        ELSE LET n == usize_from_str(lines[3]).val
             IN  IF Len(lines) < 4 \/ ~(Len(lines[4]) > n) THEN Err
                 ELSE Ok([revision |-> revision,
                          committer |-> committer,
                          date |-> parse_from_str(SubSeq(lines[2], 1, 25)).val,
                          message |-> from_utf8_lossy(SubSeq(lines[4], 1, n))])

(***************************************************************************)
(* The state after construction: the process was spawned with its output   *)
(* piped, and nothing has been read.                                       *)
(***************************************************************************)
Streams == {"ChildReader", "SvnlookCommand"}
Kinds == Streams \cup {"SvnChangedIter"}

NoChange == [path |-> <<>>, status |-> [tag |-> "None"]]
None == [tag |-> "None"]
\* a call's record: the operation, what it returned (Pending while next() is still
\* running), `consumed` when it began, the reads it made, the status line it read
\* and the tag of what the call before it returned
Call(op, v, start, k, first, prev) ==
    [op |-> op, val |-> v, start |-> start, reads |-> k, first |-> first, prev |-> prev]
NoRet == Call("none", None, 0, 0, <<>>, "none")
NoEof == [seen |-> FALSE, val |-> None, yielded |-> 0]
NoInput == [fn |-> "none", revision |-> 0, bytes |-> <<>>]
NoResult == [ok |-> FALSE, pending |-> TRUE]

\* nothing has been read, waited for or yielded
Fresh ==
    /\ exitCode = NoCode
    /\ pipe = <<>>
    /\ status = NoCode
    /\ osWaits = 0
    /\ reaped = FALSE
    /\ line = <<>>
    /\ finished = FALSE
    /\ change = NoChange
    /\ ctx = "none"
    /\ ret = NoRet
    /\ calls = 0
    /\ finishCalls = 0
    /\ ioErrs = 0
    /\ consumed = 0
    /\ yielded = 0
    /\ eofRet = NoEof
    /\ termAt = -1

Init ==
    /\ kind \in Kinds
    /\ waitErr \in BOOLEAN
    /\ todo \in 0..MaxLines
    /\ childState = "running"
    /\ stdout = "open"
    /\ pc = "idle"
    /\ Fresh
    /\ input = NoInput
    /\ parsed = NoResult

\* what no action of the streams and of the parser changes
constVars == <<kind, waitErr, input, parsed>>
childVars == <<childState, exitCode, todo>>
waitVars == <<status, osWaits, reaped>>
iterVars == <<line, finished, change>>
histVars == <<yielded, eofRet, termAt>>

(***************************************************************************)
(* The child process.  It writes its lines into the pipe, blocks while the *)
(* pipe is full, and exits when it has written everything; a write into a  *)
(* pipe whose read end is closed fails and ends it.                        *)
(***************************************************************************)
ChildWrite(l) ==
    /\ childState = "running"
    /\ todo > 0
    /\ stdout = "open"
    /\ Len(pipe) < PipeCap
    /\ pipe' = Append(pipe, l)
    /\ todo' = todo - 1
    /\ UNCHANGED <<constVars, childState, exitCode, waitVars, stdout, iterVars, pc, ctx,
                   ret, calls, finishCalls, ioErrs, consumed, histVars>>

ChildExit(c, t) ==
    /\ childState = "running"
    /\ todo = 0
    /\ t # <<>> => stdout = "open" /\ Len(pipe) < PipeCap
    /\ pipe' = IF t = <<>> THEN pipe ELSE Append(pipe, t)
    /\ childState' = "exited"
    /\ exitCode' = c
    /\ UNCHANGED <<constVars, todo, waitVars, stdout, iterVars, pc, ctx,
                   ret, calls, finishCalls, ioErrs, consumed, histVars>>

ChildSigpipe(c) ==
    /\ childState = "running"
    /\ todo > 0
    /\ stdout = "none"
    /\ childState' = "exited"
    /\ exitCode' = c
    /\ UNCHANGED <<constVars, todo, pipe, waitVars, stdout, iterVars, pc, ctx,
                   ret, calls, finishCalls, ioErrs, consumed, histVars>>

(***************************************************************************)
(* finish(): drop the pipe handle, then Child::wait().  The call is two    *)
(* steps: finish(c) releases the handle and enters the wait on behalf of   *)
(* operation c; child_wait(r) is the wait returning r.                     *)
(***************************************************************************)
\* finish() with the two statements swapped: the wait is entered with the handle held
finish_waitFirst(c) ==
    /\ UNCHANGED <<stdout, pipe>>
    /\ pc' = "wait"
    /\ ctx' = c
    /\ finishCalls' = finishCalls + 1

finish(c) ==
    /\ stdout' = "none"
    /\ pipe' = <<>>
    /\ pc' = "wait"
    /\ ctx' = c
    /\ finishCalls' = finishCalls + 1

\* std's Child::wait: the cached status if there is one, else the OS wait, which
\* blocks until the process has exited and whose status is cached only when it succeeds
child_wait(r) ==
    /\ pc = "wait"
    /\ IF status # NoCode
       THEN r = Ok(status) /\ UNCHANGED waitVars
       ELSE /\ childState = "exited"
            /\ osWaits' = osWaits + 1
            /\ IF waitErr
               THEN r = Err /\ UNCHANGED <<status, reaped>>
               ELSE /\ r = Ok(exitCode)
                    /\ status' = exitCode
                    /\ reaped' = TRUE

WaitResults == {Err} \cup {Ok(c) : c \in ExitCodes}

StatusVal(r) ==
    IF r.ok THEN [tag |-> "Status", code |-> r.val] ELSE [tag |-> "CommandError", err |-> "Wait"]

Finish ==
    /\ pc = "idle"
    /\ kind \in Streams
    /\ calls < MaxCalls
    /\ calls' = calls + 1
    /\ finish("finish")
    /\ UNCHANGED <<constVars, childVars, waitVars, iterVars, ret, ioErrs, consumed, histVars>>

FinishReturn ==
    /\ ctx = "finish"
    /\ \E r \in WaitResults :
        /\ child_wait(r)
        /\ ret' = Call("finish", StatusVal(r), consumed, 0, <<>>, ret.val.tag)
    /\ pc' = "idle"
    /\ ctx' = "none"
    /\ UNCHANGED <<constVars, childVars, pipe, stdout, iterVars, calls, finishCalls,
                   ioErrs, consumed, histVars>>

(***************************************************************************)
(* Reads of the streams.                                                   *)
(***************************************************************************)
ReadRet(v) == Call("read", v, consumed, 1, <<>>, ret.val.tag)
IoError(e) == [tag |-> "IoError", err |-> e]

\* a read of the open pipe: a line, or an I/O error
PipeData(v) ==
    \/ /\ pipe # <<>>
       /\ v = [tag |-> "Bytes", n |-> Len(Head(pipe))]
       /\ pipe' = Tail(pipe)
       /\ consumed' = consumed + 1
       /\ UNCHANGED ioErrs
    \/ /\ ioErrs < MaxIoErrs
       /\ v = IoError("Io")
       /\ ioErrs' = ioErrs + 1
       /\ UNCHANGED <<pipe, consumed>>

AtEof == stdout = "open" /\ pipe = <<>> /\ childState = "exited"

ReadVals == {[tag |-> "Bytes", n |-> Len(l)] : l \in Lines \cup Tails} \cup {IoError("Io")}

\* a handle_io that finalizes on every result that is not a positive count
ChildReaderRead_finalizesOnError ==
    /\ pc = "idle"
    /\ kind = "ChildReader"
    /\ calls < MaxCalls
    /\ calls' = calls + 1
    /\ stdout = "open"
    /\ \/ /\ \E v \in ReadVals : PipeData(v) /\ v.tag = "Bytes" /\ ret' = ReadRet(v)
          /\ UNCHANGED <<stdout, pc, ctx, finishCalls>>
       \/ /\ \E v \in ReadVals : PipeData(v) /\ v.tag = "IoError" /\ ret' = ReadRet(v)
          /\ stdout' = "none"
          /\ UNCHANGED <<pc, ctx, finishCalls>>
    /\ UNCHANGED <<constVars, childVars, waitVars, iterVars, histVars>>

\* ChildReader::read through handle_io
ChildReaderRead ==
    /\ pc = "idle"
    /\ kind = "ChildReader"
    /\ calls < MaxCalls
    /\ calls' = calls + 1
    /\ \/ /\ stdout = "none"
          /\ ret' = ReadRet(IoError("BrokenPipe"))
          /\ UNCHANGED <<pipe, stdout, pc, ctx, finishCalls, ioErrs, consumed>>
       \/ /\ stdout = "open"
          /\ \E v \in ReadVals : PipeData(v) /\ ret' = ReadRet(v)
          /\ UNCHANGED <<stdout, pc, ctx, finishCalls>>
       \/ /\ AtEof
          /\ finish("read")
          /\ UNCHANGED <<ret, ioErrs, consumed>>
    /\ UNCHANGED <<constVars, childVars, waitVars, iterVars, histVars>>

ChildReaderReadReturn ==
    /\ ctx = "read"
    /\ \E r \in WaitResults :
        /\ child_wait(r)
        /\ ret' = ReadRet(IF ~r.ok THEN IoError("Wait")
                          ELSE IF ~success(r.val) THEN IoError("NonZeroExit")
                          ELSE [tag |-> "Bytes", n |-> 0])
    /\ pc' = "idle"
    /\ ctx' = "none"
    /\ UNCHANGED <<constVars, childVars, pipe, stdout, iterVars, calls, finishCalls,
                   ioErrs, consumed, histVars>>

\* SvnlookCommand's Read / BufRead
SvnlookCommandRead ==
    /\ pc = "idle"
    /\ kind = "SvnlookCommand"
    /\ calls < MaxCalls
    /\ calls' = calls + 1
    /\ \/ /\ stdout = "none"
          /\ ret' = ReadRet(IoError("Closed"))
          /\ UNCHANGED <<pipe, ioErrs, consumed>>
       \/ /\ stdout = "open"
          /\ \E v \in ReadVals : PipeData(v) /\ ret' = ReadRet(v)
       \/ /\ AtEof
          /\ ret' = ReadRet([tag |-> "Bytes", n |-> 0])
          /\ UNCHANGED <<pipe, ioErrs, consumed>>
    /\ UNCHANGED <<constVars, childVars, waitVars, stdout, iterVars, pc, ctx, finishCalls,
                   histVars>>

(***************************************************************************)
(* Teardown of the streams.                                                *)
(***************************************************************************)
\* a teardown that forgets to call finish()
DropStream_noFinish ==
    /\ pc = "idle"
    /\ kind \in Streams
    /\ pc' = "dropped"
    /\ UNCHANGED <<constVars, childVars, pipe, waitVars, stdout, iterVars, ctx, ret, calls,
                   finishCalls, ioErrs, consumed, histVars>>

DropStream ==
    /\ pc = "idle"
    /\ kind \in Streams
    /\ finish("drop")
    /\ UNCHANGED <<constVars, childVars, waitVars, iterVars, ret, calls, ioErrs, consumed,
                   histVars>>

DropReturn ==
    /\ ctx = "drop"
    /\ \E r \in WaitResults : child_wait(r)
    /\ pc' = "dropped"
    /\ ctx' = "none"
    /\ UNCHANGED <<constVars, childVars, pipe, stdout, iterVars, ret, calls, finishCalls,
                   ioErrs, consumed, histVars>>

(***************************************************************************)
(* SvnChangedIter: next(), parse() and teardown.                           *)
(***************************************************************************)
CommandError(e) == [tag |-> "CommandError", err |-> e]
ParseError == [tag |-> "ParseError"]
ExitFailure(c) == [tag |-> "ExitFailure", code |-> c]
Change(c) == [tag |-> "Change", change |-> c]
Pending == [tag |-> "Pending"]

InCall == ret.op = "next" /\ ret.val = Pending

\* next() is still running after reading the status line l
Pend(l) == ret' = Call("next", Pending, consumed, 1, l, ret.val.tag)

\* next() returns v (None, or an item); l is the status line it read, k its reads
Yield(v, l, k) ==
    /\ ret' = IF InCall
              THEN Call("next", v, ret.start, k, ret.first, ret.prev)
              ELSE Call("next", v, consumed, k, l, ret.val.tag)
    /\ yielded' = IF v = None THEN yielded ELSE yielded + 1
    /\ termAt' = IF termAt = -1 /\ v.tag \in {"CommandError", "ExitFailure"}
                 THEN yielded + 1
                 ELSE termAt

\* a test that never asks for the continuation line
is_copied_never(st) == FALSE

\* `if let SvnStatus::Copied(_) = change.status`
is_copied(st) == st.tag = "Copied"

\* a resolution that leaves the placeholder in place
resolve_keepsPlaceholder(c, from) == c

\* `change.status = SvnStatus::Copied(from)`
resolve(c, from) == [c EXCEPT !.status = [tag |-> "Copied", from |-> from]]

\* a Finished parser without the early return: it reads the closed stream
NextFinished_readsOn ==
    /\ finished
    /\ line' = <<>>
    /\ Yield(CommandError("Closed"), <<>>, 1)
    /\ UNCHANGED <<pipe, stdout, finished, change, pc, ctx, finishCalls, ioErrs, consumed,
                   eofRet>>

\* next() on a parser that is Finished
NextFinished ==
    /\ finished
    /\ line' = <<>>
    /\ Yield(None, <<>>, 0)
    /\ UNCHANGED <<pipe, stdout, finished, change, pc, ctx, finishCalls, ioErrs, consumed,
                   eofRet>>

\* an end-of-data branch that forgets `self.finished = true`
NextEof_notFinished ==
    /\ ~finished
    /\ AtEof
    /\ line' = <<>>
    /\ finish("next")
    /\ Pend(<<>>)
    /\ UNCHANGED <<finished, change, ioErrs, consumed, histVars>>

\* the line read returns 0 bytes
NextEof ==
    /\ ~finished
    /\ AtEof
    /\ line' = <<>>
    /\ finished' = TRUE
    /\ finish("next")
    /\ Pend(<<>>)
    /\ UNCHANGED <<change, ioErrs, consumed, histVars>>

\* the line read fails
NextReadErr ==
    /\ ~finished
    /\ \/ stdout = "none" /\ UNCHANGED ioErrs /\ Yield(CommandError("Closed"), <<>>, 1)
       \/ /\ stdout = "open"
          /\ ioErrs < MaxIoErrs
          /\ ioErrs' = ioErrs + 1
          /\ Yield(CommandError("Io"), <<>>, 1)
    /\ line' = <<>>
    /\ UNCHANGED <<pipe, stdout, finished, change, pc, ctx, finishCalls, consumed, eofRet>>

\* a parse failure that ends the sequence
ParseFailed_finishes(l) ==
    /\ line' = l
    /\ finished' = TRUE
    /\ Yield(ParseError, l, 1)
    /\ UNCHANGED <<change, pc>>

\* parse(): `SvnChange::try_from(&self.line[..])?` fails on the line l
ParseFailed(l) ==
    /\ line' = l
    /\ Yield(ParseError, l, 1)
    /\ UNCHANGED <<finished, change, pc>>

\* a line read that leaves the line in the stream: the next call parses it again
NextLine_reparses ==
    /\ ~finished
    /\ stdout = "open"
    /\ pipe # <<>>
    /\ LET c == SvnChange_try_from(Head(pipe))
       IN  IF ~c.ok \/ is_copied(c.val.status)
           THEN ParseFailed(Head(pipe))
           ELSE /\ line' = <<>>
                /\ Yield(Change(c.val), Head(pipe), 1)
                /\ UNCHANGED <<finished, change, pc>>
    /\ UNCHANGED <<pipe, consumed, stdout, ctx, finishCalls, ioErrs, eofRet>>

\* the line read returns a line: parse() up to the continuation read
NextLine ==
    /\ ~finished
    /\ stdout = "open"
    /\ pipe # <<>>
    /\ pipe' = Tail(pipe)
    /\ consumed' = consumed + 1
    /\ LET c == SvnChange_try_from(Head(pipe))
       IN  IF ~c.ok
           THEN ParseFailed(Head(pipe))
           ELSE IF is_copied(c.val.status)
           THEN /\ line' = <<>>
                /\ change' = c.val
                /\ pc' = "cont"
                /\ Pend(Head(pipe))
                /\ UNCHANGED <<finished, yielded, termAt>>
           ELSE /\ line' = <<>>
                /\ Yield(Change(c.val), Head(pipe), 1)
                /\ UNCHANGED <<finished, change, pc>>
    /\ UNCHANGED <<stdout, ctx, finishCalls, ioErrs, eofRet>>

SvnChangedIterNext ==
    /\ pc = "idle"
    /\ kind = "SvnChangedIter"
    /\ calls < MaxCalls
    /\ calls' = calls + 1
    /\ \/ NextFinished
       \/ NextEof
       \/ NextReadErr
       \/ NextLine
    /\ UNCHANGED <<constVars, childVars, waitVars>>

\* finish() returns to next()
NextEofReturn ==
    /\ ctx = "next"
    /\ \E r \in WaitResults :
        /\ child_wait(r)
        /\ Yield(IF ~r.ok THEN CommandError("Wait")
                 ELSE IF success(r.val) THEN None
                 ELSE ExitFailure(r.val), <<>>, 1)
    /\ eofRet' = [seen |-> TRUE, val |-> ret'.val, yielded |-> yielded']
    /\ pc' = "idle"
    /\ ctx' = "none"
    /\ UNCHANGED <<constVars, childVars, pipe, stdout, iterVars, calls, finishCalls,
                   ioErrs, consumed>>

\* a parse() that takes the end of the data at the continuation read for the
\* end of the sequence
ParseContinuation_eofFinishes ==
    /\ pc = "cont"
    /\ AtEof
    /\ Yield(ParseError, <<>>, 2)
    /\ finished' = TRUE
    /\ change' = NoChange
    /\ pc' = "idle"
    /\ UNCHANGED <<constVars, childVars, waitVars, pipe, stdout, line, ctx, calls,
                   finishCalls, ioErrs, consumed, eofRet>>

\* parse() from the continuation read on
ParseContinuation ==
    /\ pc = "cont"
    /\ \/ /\ stdout = "none"
          /\ Yield(CommandError("Closed"), <<>>, 2)
          /\ UNCHANGED <<pipe, line, ioErrs, consumed>>
       \/ /\ stdout = "open"
          /\ ioErrs < MaxIoErrs
          /\ ioErrs' = ioErrs + 1
          /\ Yield(CommandError("Io"), <<>>, 2)
          /\ UNCHANGED <<pipe, line, consumed>>
       \/ /\ AtEof
          /\ Yield(IF SvnFrom_try_from(line).ok
                   THEN Change(resolve(change, SvnFrom_try_from(line).val))
                   ELSE ParseError, <<>>, 2)
          /\ UNCHANGED <<pipe, line, ioErrs, consumed>>
       \/ /\ stdout = "open"
          /\ pipe # <<>>
          /\ pipe' = Tail(pipe)
          /\ consumed' = consumed + 1
          /\ line' = Head(pipe)
          /\ Yield(IF SvnFrom_try_from(Head(pipe)).ok
                   THEN Change(resolve(change, SvnFrom_try_from(Head(pipe)).val))
                   ELSE ParseError, <<>>, 2)
          /\ UNCHANGED ioErrs
    /\ change' = NoChange
    /\ pc' = "idle"
    /\ UNCHANGED <<constVars, childVars, waitVars, stdout, finished, ctx, calls,
                   finishCalls, eofRet>>

\* Drop for SvnChangedIter, then Drop for its SvnlookCommand field
DropIter ==
    /\ pc = "idle"
    /\ kind = "SvnChangedIter"
    /\ finish("dropIter")
    /\ UNCHANGED <<constVars, childVars, waitVars, iterVars, ret, calls, ioErrs, consumed,
                   histVars>>

DropIterReturn ==
    /\ ctx = "dropIter"
    /\ \E r \in WaitResults : child_wait(r)
    /\ finish("drop")
    /\ UNCHANGED <<constVars, childVars, iterVars, ret, calls, ioErrs, consumed, histVars>>

Next ==
    \/ \E l \in Lines : ChildWrite(l)
    \/ \E c \in ExitCodes, t \in Tails : ChildExit(c, t)
    \/ \E c \in ExitCodes : ChildSigpipe(c)
    \/ Finish
    \/ FinishReturn
    \/ ChildReaderRead
    \/ ChildReaderReadReturn
    \/ SvnlookCommandRead
    \/ DropStream
    \/ DropReturn
    \/ SvnChangedIterNext
    \/ NextEofReturn
    \/ ParseContinuation
    \/ DropIter
    \/ DropIterReturn

Spec == Init /\ [][Next]_vars

(***************************************************************************)
(* Construction.  A third specification starts before the process is       *)
(* spawned: spawn() either fails, and there is no stream, or leaves the    *)
(* stream in the state Init describes.                                     *)
(***************************************************************************)
InitSpawn ==
    /\ kind \in Kinds
    /\ waitErr \in BOOLEAN
    /\ todo \in 0..MaxLines
    /\ childState = "none"
    /\ stdout = "none"
    /\ pc = "new"
    /\ Fresh
    /\ input = NoInput
    /\ parsed = NoResult

spawnFrame == <<constVars, exitCode, todo, pipe, waitVars, iterVars, ctx, calls,
                finishCalls, ioErrs, consumed, histVars>>

\* a spawn that goes on with a stream although no process was started
Spawn_ignoresFailure ==
    /\ pc = "new"
    /\ pc' = "idle"
    /\ \/ UNCHANGED <<childState, stdout>>
       \/ childState' = "running" /\ stdout' = "open"
    /\ UNCHANGED <<ret, spawnFrame>>

\* SvnlookCommand::spawn: Command::spawn() with the output piped, `?` on its
\* error, then the stream built around the child and its stdout (for a
\* ChildReader, by From<Child>; for a SvnChangedIter, by From<SvnlookCommand>)
Spawn ==
    /\ pc = "new"
    /\ \/ /\ pc' = "failed"
          /\ ret' = Call("spawn", CommandError("Spawn"), 0, 0, <<>>, "none")
          /\ UNCHANGED <<childState, stdout>>
       \/ /\ pc' = "idle"
          /\ childState' = "running"
          /\ stdout' = "open"
          /\ UNCHANGED ret
    /\ UNCHANGED spawnFrame

NextSpawn ==
    \/ Spawn
    \/ Next

SpecSpawn == InitSpawn /\ [][NextSpawn]_vars

(***************************************************************************)
(* The one-shot conversions.  A second specification hands one captured    *)
(* line or buffer to a conversion and records what it returns: the status  *)
(* line decoders (SvnChange::try_from, and lib.rs's parse), the            *)
(* continuation line decoder SvnFrom::try_from, and SvnInfo::try_from.     *)
(***************************************************************************)
Seqs(S, n) == UNION {[1..k -> S] : k \in 0..n}

\* status lines: a freely drawn head, a separator and path, with or without "\n"
StatusBytes == {"A", "D", "U", "_", "+", SP, "X"}
Rests == {<<>>, <<SP>>, <<SP, "p">>, <<"X", "p">>, <<SP, "p", BadByte>>}
Ends == {<<>>, <<NL>>}
StatusInput(h, r, e) == h \o r \o e

\* continuation lines: a freely drawn inside, framed well or badly
FromBytes == {"a", ":", "r", "7", "+"}
ColonPath == <<"a", ":", "b", "/", "p", "a", "t", "h", ":", "r", "7">>
OtherPath == <<"o", "t", "h", "e", "r", "/", "p", "a", "t", "h", ":", "r", "4", "2">>
LossyPath == <<BadByte, ":", "r", "7">>
Inners == Seqs(FromBytes, MaxInner) \cup {ColonPath, OtherPath, LossyPath}
Framed(i) == FromPrefix \o i \o <<")", NL>>
Framings == {"framed", "unclosed", "misprefixed", "unterminated"}
FromInput(f, i) ==
    CASE f = "framed" -> Framed(i)
      [] f = "unclosed" -> FromPrefix \o i \o <<NL>>
      [] f = "misprefixed" -> Tail(FromPrefix) \o i \o <<")", NL>>
      [] f = "unterminated" -> FromPrefix \o i \o <<")">>

\* revision info buffers: one to four sections joined by "\n"
Revisions == {7, 42}
Alice == <<"a", "l", "i", "c", "e">>
Hello == <<"h", "e", "l", "l", "o">>
Date25 == <<"2", "0", "2", "0", "-", "0", "1", "-", "0", "2", SP,
            "0", "3", ":", "0", "4", ":", "0", "5", SP, "+", "0", "0", "0", "0">>
DateLong == Date25 \o <<SP, "(", "T", "h", "u", ")">>
DateBadMonth == [DateLong EXCEPT ![6] = "1", ![7] = "3"]
DateBadByte == [DateLong EXCEPT ![3] = BadByte]
Committers == {Alice, <<BadByte>>}
Dates == {Date25, DateLong, DateBadMonth, DateBadByte}
Lengths == {<<"0">>, <<"2">>, <<"3">>, <<"5">>, <<"+", "2">>, <<"-", "1">>, <<"x">>, <<>>}
MsgBytes == {"h", NL, BadByte}
Messages == Seqs(MsgBytes, MaxMsg) \cup {Hello \o <<NL>>}
Join(ss) == IF Len(ss) = 1 THEN ss[1]
            ELSE IF Len(ss) = 2 THEN ss[1] \o <<NL>> \o ss[2]
            ELSE IF Len(ss) = 3 THEN ss[1] \o <<NL>> \o ss[2] \o <<NL>> \o ss[3]
            ELSE ss[1] \o <<NL>> \o ss[2] \o <<NL>> \o ss[3] \o <<NL>> \o ss[4]
InfoInput(k, c, d, n, m) == Join(SubSeq(<<c, d, n, m>>, 1, k))

Input(fn, r, b) == [fn |-> fn, revision |-> r, bytes |-> b]

InitParse ==
    /\ kind = "none"
    /\ waitErr = FALSE
    /\ todo = 0
    /\ childState = "none"
    /\ stdout = "none"
    /\ pc = "convert"
    /\ Fresh
    /\ \/ \E fn \in {"SvnChange", "parse"}, h \in Seqs(StatusBytes, MaxHead),
             r \in Rests, e \in Ends :
               input = Input(fn, 0, StatusInput(h, r, e))
       \/ \E f \in Framings, i \in Inners : input = Input("SvnFrom", 0, FromInput(f, i))
       \/ \E r \in Revisions, k \in 1..4, c \in Committers, d \in Dates, n \in Lengths,
             m \in Messages :
               input = Input("SvnInfo", r, InfoInput(k, c, d, n, m))
    /\ parsed = NoResult

parseFrame == <<kind, childState, exitCode, todo, pipe, waitErr, status, osWaits, reaped,
                stdout, line, finished, change, ctx, ret, calls, finishCalls, ioErrs,
                consumed, yielded, eofRet, termAt, input>>

\* SvnChange::try_from on a status line
TryFromChange ==
    /\ pc = "convert"
    /\ input.fn = "SvnChange"
    /\ parsed' = SvnChange_try_from(input.bytes)
    /\ pc' = "converted"
    /\ UNCHANGED parseFrame

\* lib.rs's parse on a status line
ParseLine ==
    /\ pc = "convert"
    /\ input.fn = "parse"
    /\ parsed' = parse(input.bytes)
    /\ pc' = "converted"
    /\ UNCHANGED parseFrame

\* SvnFrom::try_from on a continuation line
TryFromFrom ==
    /\ pc = "convert"
    /\ input.fn = "SvnFrom"
    /\ parsed' = SvnFrom_try_from(input.bytes)
    /\ pc' = "converted"
    /\ UNCHANGED parseFrame

\* SvnInfo::try_from on a revision number and a captured buffer
TryFromInfo ==
    /\ pc = "convert"
    /\ input.fn = "SvnInfo"
    /\ parsed' = SvnInfo_try_from(input.revision, input.bytes)
    /\ pc' = "converted"
    /\ UNCHANGED parseFrame

NextParse ==
    \/ TryFromChange
    \/ ParseLine
    \/ TryFromFrom
    \/ TryFromInfo

SpecParse == InitParse /\ [][NextParse]_vars

Converted(fn) == pc = "converted" /\ input.fn = fn

(***************************************************************************)
(* Properties.                                                             *)
(***************************************************************************)
ZeroBytes == [tag |-> "Bytes", n |-> 0]

\* C1: a read of a managed process stream returns 0 (a clean end of stream) only
\* when the process exited with success: a caller of read never sees a clean end
\* of stream for a process that exited with a failing status.
C1_NoCleanEofOnFailure ==
    (ret.op = "read" /\ ret.val = ZeroBytes) => success(exitCode)

\* C1, for ChildReader alone: handle_io finalizes on a zero-byte read and turns a
\* failing exit status (or a failed wait) into an error.
C1_ChildReaderEof ==
    (kind = "ChildReader" /\ ret.op = "read" /\ ret.val = ZeroBytes)
        => stdout = "none" /\ status # NoCode /\ success(status)

\* C2: the call of next() whose line read returns 0 bytes sets Finished and calls
\* finish(); it yields ExitFailure(status) when the exit status is a failure and
\* nothing when it is success, and no later call yields an item.
C2_EofEndsSequence ==
    /\ (pc = "wait" /\ ctx = "next") => finished /\ stdout = "none" /\ finishCalls >= 1
    /\ eofRet.seen =>
        /\ finished
        /\ stdout = "none"
        /\ (status # NoCode /\ ~success(status)) => eofRet.val = ExitFailure(status)
        /\ (status # NoCode /\ success(status)) => eofRet.val = None
        /\ (eofRet.val.tag = "ExitFailure") => (status # NoCode /\ ~success(status))
        /\ yielded = eofRet.yielded

\* C2's case: the end-of-data call yielded ExitFailure and a later call yielded nothing
C2_Witness ==
    /\ eofRet.seen
    /\ eofRet.val = ExitFailure(1)
    /\ ret.op = "next" /\ ret.val = None /\ ret.reads = 0

\* C3: the OS process-wait is invoked at most once, whatever sequence of reads,
\* finish() calls and teardowns the stream goes through.
C3_WaitedAtMostOnce == osWaits <= 1

\* C4: once the owning object is destroyed, teardown has called finish(): the
\* pipe is closed, the process has been waited for and has exited, and it has
\* been reaped whenever the host's process-wait can succeed at all.
C4_TeardownReaps ==
    pc = "dropped" =>
        /\ stdout = "none"
        /\ finishCalls >= (IF kind = "SvnChangedIter" THEN 2 ELSE 1)
        /\ osWaits >= 1
        /\ childState = "exited"
        /\ ~waitErr => reaped /\ status = exitCode

\* C4's case: a parser abandoned before the end of the data, after an error item
C4_Witness ==
    /\ pc = "dropped"
    /\ kind = "SvnChangedIter"
    /\ ~finished
    /\ ret.val = ParseError
    /\ reaped

\* C5: whenever the caller is inside finish() waiting for the process to exit,
\* the pipe handle has already been released.
C5_PipeReleasedBeforeWait == pc = "wait" => stdout = "none"

\* C5's case: the caller blocks in the wait while the process still has output to write
C5_Witness ==
    /\ pc = "wait"
    /\ childState = "running"
    /\ todo > 0
    /\ status = NoCode
    /\ ~waitErr

CopiedCode == <<"A", SP, "+">>
IsChange(r) == r.op = "next" /\ r.val.tag = "Change"

\* C6: a yielded record whose status is Copied carries the source path and revision
\* parsed from the continuation line just read; while the placeholder is pending,
\* nothing has been yielded.
C6_CopiedResolved ==
    /\ (IsChange(ret) /\ ret.val.change.status.tag = "Copied") =>
        /\ SvnFrom_try_from(line).ok
        /\ ret.val.change.status.from = SvnFrom_try_from(line).val
    /\ pc = "cont" => ret.val = Pending /\ change.status.from = DefaultFrom

\* C6's case: a Copied record has been yielded
C6_Witness ==
    /\ IsChange(ret)
    /\ ret.val.change.status = [tag |-> "Copied", from |-> [path |-> <<"s">>, revision |-> 7]]
    /\ ret.val.change.path = <<"q">>

\* C7: once next() has yielded a CommandError or an ExitFailure item, no later
\* call yields an item.
C7_ErrorsTerminal == termAt # -1 => yielded = termAt

\* C8: after next() yields a ParseError the parser is still Reading, and the next
\* call takes the next unread line of the stream and answers for that line.
C8_ParseErrorContinues ==
    [][(kind = "SvnChangedIter" /\ pc = "idle" /\ ret.op = "next" /\ ret.val = ParseError) =>
        /\ ~finished
        /\ (calls' = calls + 1 /\ pipe # <<>> /\ ioErrs' = ioErrs) =>
            /\ pipe' = Tail(pipe)
            /\ consumed' = consumed + 1
            /\ ret'.first = Head(pipe)
            /\ ret'.val = LET c == SvnChange_try_from(Head(pipe))
                          IN  IF ~c.ok THEN ParseError
                              ELSE IF c.val.status.tag = "Copied" THEN Pending
                              ELSE Change(c.val)]_vars

\* C8's case: the call after a ParseError item yielded a record
C8_Witness ==
    /\ IsChange(ret)
    /\ ret.prev = "ParseError"
    /\ ~finished

\* C9: Finished is absorbing, and a call of next() on a Finished parser yields
\* nothing, reads nothing and does not call finish().
C9_FinishedAbsorbing ==
    [][finished =>
        /\ finished'
        /\ calls' = calls + 1 =>
            /\ ret'.val = None
            /\ ret'.reads = 0
            /\ UNCHANGED <<pipe, stdout, consumed, ioErrs, finishCalls, osWaits>>]_vars

\* C9's case: two calls in a row on a parser that ended cleanly yielded nothing
C9_Witness ==
    /\ finished
    /\ ret.op = "next" /\ ret.val = None /\ ret.reads = 0
    /\ ret.prev = "None"
    /\ status = 0

\* C10: a call of next() that yields a record has consumed exactly one line when
\* the status code is that of Added, Deleted, Updated or PropChange, and exactly
\* two when it is "A +" (Copied).
C10_LinesPerRecord ==
    IsChange(ret) =>
        LET st == ret.val.change.status.tag
        IN  IF SubSeq(ret.first, 1, 3) = CopiedCode
            THEN st = "Copied" /\ consumed - ret.start = 2 /\ ret.reads = 2
            ELSE /\ st \in {"Added", "Deleted", "Updated", "PropChange"}
                 /\ consumed - ret.start = 1
                 /\ ret.reads = 1

\* C10's case: a one-line record, then a two-line Copied record
C10_Witness ==
    /\ IsChange(ret)
    /\ ret.prev = "Change"
    /\ ret.val.change.status.tag = "Copied"
    /\ consumed = 3

(***************************************************************************)
(* Properties of the one-shot conversions, under SpecParse.                *)
(***************************************************************************)
\* the status a 3-byte code stands for, "none" for any other code
StatusOfCode(c) ==
    CASE c = <<"A", SP, SP>> -> "Added"
      [] c = <<"A", SP, "+">> -> "Copied"
      [] c = <<"D", SP, SP>> -> "Deleted"
      [] c = <<"U", SP, SP>> -> "Updated"
      [] c = <<"U", "U", SP>> -> "Updated"
      [] c = <<"_", "U", SP>> -> "PropChange"
      [] OTHER -> "none"

\* the status of the first 3 bytes of the line l, "none" when it has fewer
StatusOfLine(l) == IF Len(l) < 3 THEN "none" ELSE StatusOfCode(SubSeq(l, 1, 3))

StatusLineConverted == Converted("SvnChange") \/ Converted("parse")

\* C11: the status of a decoded status line is the one its first 3 bytes stand
\* for ("A  " Added, "A +" Copied, "D  " Deleted, "U  " and "UU " Updated, "_U "
\* PropChange), its path is the bytes after byte 4 without the trailing "\n", and
\* every line of a known code, 4 bytes or more and a "\n" is decoded.
C11_StatusAndPath ==
    StatusLineConverted =>
        LET l == input.bytes
            rest == SubSeq(l, 5, Len(l))
            path == IF ends_with(rest, <<NL>>) THEN SubSeq(rest, 1, Len(rest) - 1) ELSE rest
        IN  /\ parsed.ok =>
                /\ Len(l) >= 4
                /\ StatusOfLine(l) # "none"
                /\ parsed.val.status.tag = StatusOfLine(l)
                /\ parsed.val.path = from_utf8_lossy(path)
            /\ (Len(l) >= 5 /\ ends_with(l, <<NL>>) /\ StatusOfLine(l) # "none") => parsed.ok

\* C11's case: "UU " decoded as Updated, with a path that is not valid UTF-8
C11_Witness ==
    /\ Converted("SvnChange")
    /\ input.bytes = <<"U", "U", SP, SP, "p", BadByte, NL>>
    /\ parsed = Ok([path |-> <<"p", Replacement>>, status |-> [tag |-> "Updated"]])

\* C12: a status line whose first 3 bytes are none of the six codes, or a line
\* of fewer than 4 bytes, is a ParseError: no record comes out of it.
C12_UnknownOrShort ==
    StatusLineConverted =>
        ((Len(input.bytes) < 4 \/ StatusOfLine(input.bytes) = "none") => parsed = Err)

\* C12's case: a complete line with an unknown code
C12_Witness ==
    /\ Converted("parse")
    /\ input.bytes = <<"X", SP, SP, SP, "p", NL>>
    /\ parsed = Err

\* the bytes of the line l between the prefix and the closing ")" and "\n"
InnerOf(l) == SubSeq(l, Len(FromPrefix) + 1, Len(l) - 2)

\* the index of the ':' of s after which there is no other ':', 0 without any
LastColon(s) ==
    IF \A i \in 1..Len(s) : s[i] # ":" THEN 0
    ELSE CHOOSE i \in 1..Len(s) : s[i] = ":" /\ \A j \in (i + 1)..Len(s) : s[j] # ":"

AllDigits(s) == \A i \in 1..Len(s) : IsDigit(s[i])

\* `"    (from " path ":r" digits ")" "\n"`, with one digit or more
WellFormedFrom(l) ==
    /\ starts_with(l, FromPrefix)
    /\ ends_with(l, <<")", NL>>)
    /\ Len(l) >= Len(FromPrefix) + 2
    /\ LET inner == InnerOf(l)
           p == LastColon(inner)
       IN  /\ p > 0
           /\ Len(inner) >= p + 2
           /\ inner[p + 1] = "r"
           /\ AllDigits(SubSeq(inner, p + 2, Len(inner)))

\* C13: a well-formed continuation line is split at its last ':': the bytes to
\* the left of it, earlier ':' included, are the source path and the digits
\* after ":r" are the revision; "    (from a:b/path:r7)" gives "a:b/path" and 7.
C13_SplitAtLastColon ==
    Converted("SvnFrom") =>
        /\ WellFormedFrom(input.bytes) =>
              LET inner == InnerOf(input.bytes)
                  p == LastColon(inner)
              IN  parsed = Ok([path |-> from_utf8_lossy(SubSeq(inner, 1, p - 1)),
                               revision |-> DecimalVal(SubSeq(inner, p + 2, Len(inner)))])
        /\ input.bytes = Framed(ColonPath) =>
              parsed = Ok([path |-> <<"a", ":", "b", "/", "p", "a", "t", "h">>,
                           revision |-> 7])

\* C13's case: the line whose source path has a ':' of its own
C13_Witness ==
    /\ Converted("SvnFrom")
    /\ input.bytes = Framed(ColonPath)
    /\ parsed.ok
    /\ parsed.val.revision = 7

\* a decimal numeral, with or without a plus sign
Numeric(s) ==
    \/ s # <<>> /\ AllDigits(s)
    \/ Len(s) >= 2 /\ s[1] = "+" /\ AllDigits(Tail(s))

\* the line l without its "\n", when it has one
Unterminated(l) == IF ends_with(l, <<NL>>) THEN SubSeq(l, 1, Len(l) - 1) ELSE l

\* C14: a continuation line that does not start with "    (from ", does not end
\* with ")", has no ':' after the prefix, has nothing after the two bytes of the
\* revision marker, or has a revision that is no number, is a ParseError.
C14_MalformedFrom ==
    Converted("SvnFrom") =>
        LET l == Unterminated(input.bytes)
            inner == SubSeq(l, Len(FromPrefix) + 1, Len(l) - 1)
            p == LastColon(inner)
            digits == SubSeq(inner, p + 2, Len(inner))
        IN  (\/ ~starts_with(l, FromPrefix)
             \/ ~ends_with(l, <<")">>)
             \/ p = 0
             \/ digits = <<>>
             \/ ~Numeric(digits)) => parsed = Err

\* C14's case: a line that ends at the revision marker
C14_Witness ==
    /\ Converted("SvnFrom")
    /\ input.bytes = Framed(<<"a", ":", "r">>)
    /\ parsed = Err

\* C15: a continuation line is decoded only when its last ':' is followed by
\* the byte 'r' and then by decimal digits alone, one or more, up to the ")".
C15_MarkerAndDigits ==
    (Converted("SvnFrom") /\ parsed.ok) =>
        LET l == Unterminated(input.bytes)
            inner == SubSeq(l, Len(FromPrefix) + 1, Len(l) - 1)
            p == LastColon(inner)
            digits == SubSeq(inner, p + 2, Len(inner))
        IN  /\ p > 0
            /\ Len(inner) >= p + 2
            /\ inner[p + 1] = "r"
            /\ AllDigits(digits)

\* C15, the part the decoder keeps: something follows the 2-byte marker, and it
\* is a decimal numeral with or without a plus sign
C15_SomethingNumeric ==
    (Converted("SvnFrom") /\ parsed.ok) =>
        LET l == Unterminated(input.bytes)
            inner == SubSeq(l, Len(FromPrefix) + 1, Len(l) - 1)
            p == LastColon(inner)
        IN  p > 0 /\ Numeric(SubSeq(inner, p + 2, Len(inner)))

\* C15: the byte after the last ':' is 'r' in every decoded line
C15_MarkerIsR ==
    (Converted("SvnFrom") /\ parsed.ok) =>
        LET inner == InnerOf(input.bytes)
        IN  inner[LastColon(inner) + 1] = "r"

\* C15: the revision of every decoded line is made of digits alone
C15_NoSign ==
    (Converted("SvnFrom") /\ parsed.ok) =>
        LET inner == InnerOf(input.bytes)
        IN  AllDigits(SubSeq(inner, LastColon(inner) + 2, Len(inner)))

\* the places of the "\n" bytes of the buffer b, and the k-th of them
DelimsOf(b) == {i \in 1..Len(b) : b[i] = NL}
Delim(b, k) ==
    CHOOSE i \in DelimsOf(b) : Cardinality({j \in DelimsOf(b) : j <= i}) = k

\* the four sections of a buffer with 3 delimiters or more: the first 3 delimit
DateSection(b) == SubSeq(b, Delim(b, 1) + 1, Delim(b, 2) - 1)
CountSection(b) == SubSeq(b, Delim(b, 2) + 1, Delim(b, 3) - 1)
MessageSection(b) == SubSeq(b, Delim(b, 3) + 1, Len(b))

\* the value of a decimal numeral with or without a plus sign
CountVal(s) == DecimalVal(IF s[1] = "+" THEN Tail(s) ELSE s)

\* C16: the buffer is split at its first 3 delimiters only; a decoded record has
\* for message the first N bytes of the 4th section, N being the count of the
\* 3rd, with the delimiters among them kept and the bytes after them dropped;
\* its revision is the one the caller gave; and every buffer with a date, a
\* count N and more than N bytes in its 4th section is decoded.
C16_MessageByCount ==
    Converted("SvnInfo") =>
        LET b == input.bytes
        IN  /\ parsed.ok => Cardinality(DelimsOf(b)) >= 3
            /\ Cardinality(DelimsOf(b)) >= 3 =>
                /\ parsed.ok =>
                    /\ Numeric(CountSection(b))
                    /\ Len(MessageSection(b)) > CountVal(CountSection(b))
                    /\ parsed.val.message =
                         from_utf8_lossy(SubSeq(MessageSection(b), 1,
                                                CountVal(CountSection(b))))
                    /\ parsed.val.revision = input.revision
                /\ (/\ Len(DateSection(b)) > Len(Date25)
                    /\ parse_from_str(SubSeq(DateSection(b), 1, Len(Date25))).ok
                    /\ Numeric(CountSection(b))
                    /\ Len(MessageSection(b)) > CountVal(CountSection(b))) => parsed.ok

\* C16's case: a message with a delimiter inside, and a byte after it
C16_Witness ==
    /\ Converted("SvnInfo")
    /\ input = Input("SvnInfo", 42, InfoInput(4, Alice, DateLong, <<"3">>, <<"h", NL, "h", "h">>))
    /\ parsed.ok
    /\ parsed.val.message = <<"h", NL, "h">>
    /\ parsed.val.revision = 42

Timestamp == [year |-> 2020, month |-> 1, day |-> 2, hour |-> 3, minute |-> 4,
              second |-> 5, offset |-> 0]

\* C17: revision 7 and the buffer of "alice", the 25 bytes
\* "2020-01-02 03:04:05 +0000", "5" and "hello" with a "\n" after it decode to
\* revision 7, "alice", 2020-01-02T03:04:05+00:00 and "hello".
C17_ExampleDecodes ==
    (/\ Converted("SvnInfo")
     /\ input = Input("SvnInfo", 7, InfoInput(4, Alice, Date25, <<"5">>, Hello \o <<NL>>)))
        => parsed = Ok([revision |-> 7, committer |-> Alice, date |-> Timestamp,
                        message |-> Hello])

\* C17, with a date section of more than 25 bytes that begins with the same 25
C17_LongerDateDecodes ==
    (/\ Converted("SvnInfo")
     /\ input = Input("SvnInfo", 7, InfoInput(4, Alice, DateLong, <<"5">>, Hello \o <<NL>>)))
        => parsed = Ok([revision |-> 7, committer |-> Alice, date |-> Timestamp,
                        message |-> Hello])

\* C18: a buffer with fewer than 4 sections, with a length section that is no
\* non-negative decimal integer, or with a message section of N bytes or fewer,
\* N being the declared length, is a ParseError.
C18_InfoRejects ==
    Converted("SvnInfo") =>
        LET b == input.bytes
        IN  IF Cardinality(DelimsOf(b)) < 3 THEN parsed = Err
            ELSE /\ ~Numeric(CountSection(b)) => parsed = Err
                 /\ (/\ Numeric(CountSection(b))
                     /\ Len(MessageSection(b)) <= CountVal(CountSection(b))) => parsed = Err

\* C18's case: a message section of exactly the declared length
C18_Witness ==
    /\ Converted("SvnInfo")
    /\ input = Input("SvnInfo", 7, InfoInput(4, Alice, DateLong, <<"2">>, <<"h", "h">>))
    /\ parsed = Err

(***************************************************************************)
(* Properties of the streams after finalization (under Spec) and of spawn  *)
(* (under SpecSpawn).                                                      *)
(***************************************************************************)
\* a step that is a whole read() call of a stream
ReadStep == kind \in Streams /\ pc = "idle" /\ calls' = calls + 1 /\ pc' = "idle"

\* such a read fails, and the pipe is as it was
ReadFailsUntouched ==
    /\ ret'.op = "read"
    /\ ret'.val.tag = "IoError"
    /\ UNCHANGED <<pipe, consumed, ioErrs>>

\* C19: once a stream is finalized, by finish(), by a read that met the end of
\* the data or by teardown, it stays so, and every later read returns an error
\* and leaves the pipe alone.
C19_NoReadAfterFinalized ==
    [][(\/ stdout = "none"
        \/ kind \in Streams /\ pc = "idle" /\ ret.op = "read" /\ ret.val = ZeroBytes) =>
            /\ stdout' = "none"
            /\ ReadStep => ReadFailsUntouched]_vars

\* C19, for a stream whose handle has been released (finish() or teardown, and
\* for a ChildReader the read that met the end of the data)
C19_ReleasedStaysReleased ==
    [][stdout = "none" =>
        /\ stdout' = "none"
        /\ ReadStep => ReadFailsUntouched]_vars

\* C19, for ChildReader alone
C19_ChildReaderFinalized ==
    [][(/\ kind = "ChildReader"
        /\ \/ stdout = "none"
           \/ pc = "idle" /\ ret.op = "read" /\ ret.val = ZeroBytes) =>
            /\ stdout' = "none"
            /\ ReadStep => ReadFailsUntouched]_vars

\* C20: spawn either fails with a CommandError, and then there is no process, no
\* pipe and nothing the caller can do with a stream, or it leaves a running
\* process with its output piped to a stream in the active state.
C20_SpawnOutcome ==
    [][/\ pc # "failed"
       /\ pc = "new" =>
            \/ /\ pc' = "failed"
               /\ ret'.op = "spawn" /\ ret'.val = CommandError("Spawn")
               /\ childState' = "none" /\ stdout' = "none" /\ pipe' = <<>>
               /\ osWaits' = 0 /\ ~reaped'
            \/ /\ pc' = "idle"
               /\ childState' = "running" /\ stdout' = "open" /\ pipe' = <<>>
               /\ status' = NoCode /\ finishCalls' = 0 /\ ~finished']_vars

\* C20's case: the executable could not be started
C20_Witness ==
    /\ pc = "failed"
    /\ ret.val = CommandError("Spawn")
    /\ childState = "none"

\* C20's other case: a stream made by spawn has been read to the end
C20_SpawnedAndRead ==
    /\ kind = "ChildReader"
    /\ ret.op = "read" /\ ret.val = ZeroBytes
    /\ consumed = MaxLines

(***************************************************************************)
(* Progress.  A fourth specification adds what the host guarantees: the    *)
(* child runs (it writes while the pipe has room, exits when it has        *)
(* written everything, and is ended by a write into a pipe whose reader is *)
(* gone), and a process-wait on a child that has exited returns.  Nothing  *)
(* is assumed of the caller.                                               *)
(***************************************************************************)
ChildRuns ==
    \/ \E l \in Lines : ChildWrite(l)
    \/ \E c \in ExitCodes, t \in Tails : ChildExit(c, t)
    \/ \E c \in ExitCodes : ChildSigpipe(c)

WaitReturns ==
    \/ FinishReturn
    \/ ChildReaderReadReturn
    \/ DropReturn
    \/ NextEofReturn
    \/ DropIterReturn

SpecLive == Init /\ [][Next]_vars /\ WF_vars(ChildRuns) /\ WF_vars(WaitReturns)

\* C21: every call of finish(), explicit, from a read, from next() or from
\* teardown, and whatever the child still has to write, returns: the caller
\* does not stay in the wait of that call.
C21_FinishReturns ==
    \A c \in {"finish", "read", "next", "drop", "dropIter"} :
        (pc = "wait" /\ ctx = c) ~> ~(pc = "wait" /\ ctx = c)

\* C21's case: finish() has returned for a child that was ended by its write
\* into the closed pipe, with output it never wrote
C21_Witness ==
    /\ ret.op = "finish"
    /\ ret.val.tag = "Status"
    /\ pc = "idle"
    /\ childState = "exited"
    /\ todo > 0

\* the lines of the whole output, as far as they are known: those read, those
\* in the pipe and those the child has still to write
OutputLines == consumed + Len(pipe) + todo

\* C22: the items next() has yielded are at most the lines of the output plus
\* one, also when reads of a line fail with an I/O error.
C22_ItemsBounded ==
    kind = "SvnChangedIter" => yielded <= OutputLines + 1

\* C22, as long as no read of a line has failed
C22_BoundWithoutIoErrors ==
    (kind = "SvnChangedIter" /\ ioErrs = 0) => yielded <= consumed + 1

\* C22, what the count is bounded by: the lines read, the failed reads, and one
C22_BoundWithIoErrors ==
    kind = "SvnChangedIter" => yielded <= consumed + ioErrs + 1

\* C22, termination: every item costs a line of the output, a failed read, or
\* the one end of the data; a call that yields nothing leaves the parser Finished
C22_EveryItemCosts ==
    [][/\ yielded' = yielded + 1 =>
            \/ consumed' > ret'.start
            \/ ioErrs' > ioErrs
            \/ ~eofRet.seen /\ eofRet'.seen
       /\ (ret'.op = "next" /\ ret'.val = None) => finished']_vars

\* C23: when the continuation read of an "A +" line returns 0 bytes, that call
\* yields a ParseError, the parser stays Reading and finish() is not called;
\* the call after it reads 0 bytes, sets Finished and calls finish(), and
\* yields what the exit status asks for.
C23_CopiedAtEnd ==
    [][/\ (pc = "cont" /\ AtEof /\ ioErrs' = ioErrs) =>
            /\ ret'.op = "next" /\ ret'.val = ParseError
            /\ pc' = "idle"
            /\ ~finished'
            /\ UNCHANGED <<stdout, finishCalls, osWaits, consumed>>
       /\ (/\ kind = "SvnChangedIter" /\ pc = "idle"
           /\ ret.val = ParseError /\ ret.reads = 2
           /\ AtEof
           /\ calls' = calls + 1 /\ ioErrs' = ioErrs) =>
            /\ finished'
            /\ stdout' = "none"
            /\ finishCalls' = finishCalls + 1
            /\ pc' = "wait" /\ ctx' = "next"
       /\ (pc = "wait" /\ ctx = "next" /\ pc' = "idle") =>
            ret'.val = IF waitErr THEN CommandError("Wait")
                       ELSE IF success(exitCode) THEN None
                       ELSE ExitFailure(exitCode)]_vars

\* C23's case: the output ended after an "A +" line, and next() has answered
C23_Witness ==
    /\ pc = "idle"
    /\ ret.op = "next" /\ ret.val = ParseError
    /\ ret.first = LCopied
    /\ ret.reads = 2 /\ consumed - ret.start = 1
    /\ AtEof
    /\ ~finished /\ finishCalls = 0

\* C23's case, one call later: the end of the data reported a failing status
C23_ThenExitFailure ==
    /\ ret.op = "next" /\ ret.val = ExitFailure(1)
    /\ ret.prev = "ParseError"
    /\ consumed = 1 /\ ioErrs = 0
    /\ yielded = 2

\* a step in which a read() of a stream returns v
ReadReturns(v) == ReadStep /\ ret'.op = "read" /\ ret'.val = v

\* C24: a read of a stream that returns a positive count, or an I/O error of
\* the pipe, leaves the handle open and invokes no process-wait; the handle is
\* released only by a read that met the end of the data, by finish() or by
\* teardown.
C24_ReadKeepsLifecycle ==
    [][/\ (\E v \in ReadVals : (v.tag = "IoError" \/ v.n > 0) /\ ReadReturns(v)) =>
            /\ stdout = "open"
            /\ UNCHANGED <<stdout, status, osWaits, reaped, finishCalls, childState>>
       /\ (stdout = "open" /\ stdout' = "none") =>
            /\ finishCalls' = finishCalls + 1
            /\ pc' = "wait"
            /\ \/ ctx' = "read" /\ kind = "ChildReader" /\ AtEof
               \/ ctx' = "finish" /\ kind \in Streams
               \/ ctx' = "drop" /\ kind \in Streams
               \/ ctx' = "next" /\ AtEof
               \/ ctx' = "dropIter"]_vars

\* C24's case: a ChildReader has returned a line and then an I/O error, and its
\* handle is still open
C24_Witness ==
    /\ kind = "ChildReader"
    /\ ret.op = "read" /\ ret.val = IoError("Io")
    /\ ret.prev = "Bytes"
    /\ consumed = 1
    /\ stdout = "open" /\ osWaits = 0 /\ finishCalls = 0

\* the record the status line l stands for (with the placeholder, for "A +")
RecordOf(l) == SvnChange_try_from(l).val

\* C25: the parser is one-pass and keeps the order of the stream.  Every line it
\* takes is the first unread line, taken once; a call begins at the first line
\* no earlier call took; the record a call yields is decoded from the status
\* line it began at, and the only other line it takes is the continuation line
\* of a Copied record.
C25_OnePassInOrder ==
    [][kind = "SvnChangedIter" =>
        /\ consumed' >= consumed
        /\ consumed' # consumed =>
            /\ pipe # <<>>
            /\ pipe' = Tail(pipe)
            /\ consumed' = consumed + 1
            /\ pc = "idle" => ret'.start = consumed /\ ret'.first = Head(pipe)
            /\ pc = "cont" => /\ ret'.start = consumed - 1
                              /\ ret'.first = ret.first
                              /\ RecordOf(ret.first).status.tag = "Copied"
                              /\ line' = Head(pipe)
        /\ (yielded' = yielded + 1 /\ ret'.val.tag = "Change") =>
            /\ SvnChange_try_from(ret'.first).ok
            /\ ret'.val.change.path = RecordOf(ret'.first).path
            /\ ret'.val.change.status.tag = RecordOf(ret'.first).status.tag
            /\ consumed' - ret'.start =
                 (IF RecordOf(ret'.first).status.tag = "Copied" THEN 2 ELSE 1)
            /\ ret'.val.change.status.tag = "Copied" =>
                 ret'.val.change.status.from = SvnFrom_try_from(line').val]_vars

\* C25's case: a Copied record of two lines, then the record of the third line
C25_Witness ==
    /\ IsChange(ret)
    /\ ret.prev = "Change"
    /\ ret.first = LDeleted
    /\ ret.start = 2 /\ consumed = 3
    /\ yielded = 2
====
